---- MODULE Spec2Model ----
(***************************************************************************)
(* kayring: a password-protected secret store (src/src/main.rs).           *)
(*                                                                         *)
(* One process run executes one sub-command (set, get, list, clone) on a   *)
(* directory of entry files.  The state that survives between runs is the  *)
(* file system; what one run returns and prints is kept in `last`.         *)
(*                                                                         *)
(* Strings are sequences of byte values (ASCII / UTF-8), file contents     *)
(* are sequences of bytes 0..255, a path is the sequence of its            *)
(* components.  The two library primitives are idealised:                  *)
(*   - PBKDF2-HMAC-SHA256 yields a key that is determined by, and          *)
(*     determines, the password bytes, the salt and the number of PRF      *)
(*     blocks the iteration computes; the key is represented by that term. *)
(*   - AES-256-GCM is a stream cipher (xor with a keystream) followed by   *)
(*     a 16 byte tag; the keystream and the tag are digests of the key,    *)
(*     the nonce and (for the tag) the ciphertext.                         *)
(***************************************************************************)
EXTENDS Integers, Sequences, FiniteSets, Bags, TLC

VARIABLES
  files,     \* the regular files on disk: resolved path |-> contents
  dirs,      \* the directories on disk: a set of resolved paths
  last       \* result of the last run: sub-command, outcome, stdout, stderr warning

vars == <<files, dirs, last>>

----------------------------------------------------------------------------
(* Values of the standard library.                                         *)

None == [some |-> FALSE, v |-> <<>>]
Some(x) == [some |-> TRUE, v |-> x]

Ok(x) == [ok |-> TRUE, v |-> x]
Err == [ok |-> FALSE, v |-> <<>>]


\* s[from..to) with 0-based offsets, as a Rust slice (the caller checks the range)
Slice(s, from, to) == [i \in 1..(to - from) |-> s[from + i]]

RECURSIVE XorByte(_, _)
XorByte(a, b) ==
  IF a = 0 THEN b
  ELSE IF b = 0 THEN a
  ELSE ((a + b) % 2) + 2 * XorByte(a \div 2, b \div 2)

\* byte-wise lexicographic order: Ord for String, used by Vec<String>::sort
RECURSIVE StrLess(_, _)
StrLess(a, b) ==
  IF b = <<>> THEN FALSE
  ELSE IF a = <<>> THEN TRUE
  ELSE IF Head(a) # Head(b) THEN Head(a) < Head(b)
  ELSE StrLess(Tail(a), Tail(b))

----------------------------------------------------------------------------
(* hex::decode, hex::encode                                                *)

HexVal(c) ==
  IF c \in 48..57 THEN c - 48
  ELSE IF c \in 97..102 THEN c - 87
  ELSE IF c \in 65..70 THEN c - 55
  ELSE -1

HexDigit(n) == IF n < 10 THEN 48 + n ELSE 87 + n

HexDecode(s) ==
  IF Len(s) % 2 # 0 \/ \E i \in 1..Len(s) : HexVal(s[i]) < 0
  THEN Err
  ELSE Ok([i \in 1..(Len(s) \div 2) |-> 16 * HexVal(s[2 * i - 1]) + HexVal(s[2 * i])])

HexEncode(b) ==
  [i \in 1..(2 * Len(b)) |->
     IF i % 2 = 1 THEN HexDigit(b[(i + 1) \div 2] \div 16)
     ELSE HexDigit(b[i \div 2] % 16)]

\* "0x"
HexPrefix == <<48, 120>>

StartsWith(s, p) == Len(s) >= Len(p) /\ \A i \in 1..Len(p) : s[i] = p[i]

\* str::is_char_boundary on UTF-8 bytes
IsCharBoundary(s, idx) ==
  \/ idx = 0
  \/ idx = Len(s)
  \/ idx < Len(s) /\ ~(s[idx + 1] \in 128..191)

----------------------------------------------------------------------------
(* Key derivation and the AEAD cipher.                                     *)

\* unicode_normalization nfc(), on code points: the canonical composition
\* of e (U+0065) with the combining acute accent (U+0301) is U+00E9
RECURSIVE Nfc(_)
Nfc(s) ==
  IF Len(s) < 2 THEN s
  ELSE IF s[1] = 101 /\ s[2] = 769 THEN <<233>> \o Nfc(Tail(Tail(s)))
  ELSE <<Head(s)>> \o Nfc(Tail(s))

\* String::as_bytes: UTF-8 of code points below U+0800
RECURSIVE Utf8(_)
Utf8(s) ==
  IF s = <<>> THEN <<>>
  ELSE (IF Head(s) < 128 THEN <<Head(s)>>
        ELSE <<192 + (Head(s) \div 64), 128 + (Head(s) % 64)>>) \o Utf8(Tail(s))

\* pbkdf2::pbkdf2::<Hmac<Sha256>>: block U_1 is always computed, the loop
\* `for _ in 1..rounds` adds one block per pass, so rounds = 0 computes what
\* rounds = 1 computes.  The key is the term <<blocks, |pw|, pw, salt>>.
Pbkdf2(pw, salt, rounds) ==
  <<1 + Cardinality(1..(rounds - 1)), Len(pw)>> \o pw \o salt

derive_key_v1(password, salt, rounds) ==
  Pbkdf2(Utf8(Nfc(password)), salt, rounds)

\* AES-GCM authentication tag length
TagLen == 16

\* digests: Sum(x) is the sum of the x[i], Moment(x) the sum of the i * x[i]
\* (a sequence with positive entries is a bag, whose cardinality is their sum)
Sum(x) == BagCardinality([i \in 1..Len(x) |-> x[i] + 1]) - Len(x)
Moment(x) == BagCardinality([i \in 1..Len(x) |-> i * (x[i] + 1)]) - (Len(x) * (Len(x) + 1)) \div 2

Keystream(key, nonce, i) ==
  LET x == key \o nonce
  IN  (Moment(x) + i * Sum(x)) % 256

\* byte j of the tag changes, for some j, whenever one byte of x changes
Tag(key, nonce, ct) ==
  LET x == <<Len(key)>> \o key \o nonce \o ct
      a == Moment(x)
      b == Sum(x)
  IN  [j \in 1..TagLen |-> (a + j * b) % 256]

\* Aes256Gcm::encrypt: ciphertext followed by the tag
AesGcmEncrypt(key, nonce, pt) ==
  LET ct == [i \in 1..Len(pt) |-> XorByte(pt[i], Keystream(key, nonce, i))]
  IN  ct \o Tag(key, nonce, ct)

\* Aes256Gcm::decrypt: one opaque error for a short buffer and for a bad tag
AesGcmDecrypt(key, nonce, enc) ==
  IF Len(enc) < TagLen THEN Err
  ELSE LET n == Len(enc) - TagLen
           ct == Slice(enc, 0, n)
       IN  IF Slice(enc, n, Len(enc)) = Tag(key, nonce, ct)
           THEN Ok([i \in 1..n |-> XorByte(ct[i], Keystream(key, nonce, i))])
           ELSE Err

----------------------------------------------------------------------------
(* Paths.  A path string is kept as parsed: whether it is absolute, and    *)
(* its components (each a byte string).  A resolved path is the sequence   *)
(* of components from the file system root.                                *)

Absolute(comps) == [abs |-> TRUE, comps |-> comps]
Relative(comps) == [abs |-> FALSE, comps |-> comps]

\* "." and ".."
Dot == <<46>>
DotDot == <<46, 46>>
\* ".kayring"
DefaultSubdir == <<46, 107, 97, 121, 114, 105, 110, 103>>

\* Path::join: an absolute argument replaces the base
Join(base, name) ==
  IF name.abs THEN name
  ELSE [abs |-> base.abs, comps |-> base.comps \o name.comps]

Parent(p) == IF p = <<>> THEN <<>> ELSE SubSeq(p, 1, Len(p) - 1)

\* what the operating system resolves an absolute path to: every component
\* but the last is looked up in a directory that must exist
RECURSIVE WalkFrom(_, _, _)
WalkFrom(cur, comps, ds) ==
  IF comps = <<>> THEN Ok(cur)
  ELSE IF cur \notin ds THEN Err
  ELSE IF Head(comps) = Dot THEN WalkFrom(cur, Tail(comps), ds)
  ELSE IF Head(comps) = DotDot THEN WalkFrom(Parent(cur), Tail(comps), ds)
  ELSE WalkFrom(Append(cur, Head(comps)), Tail(comps), ds)

Resolve(path, ds) == WalkFrom(<<>>, path.comps, ds)

\* Path::exists
Exists(path, fs, ds) ==
  LET r == Resolve(path, ds)
  IN  r.ok /\ (r.v \in DOMAIN fs \/ r.v \in ds)

Prefixes(p) == {SubSeq(p, 1, n) : n \in 0..Len(p)}

\* fs::create_dir_all: fails when a prefix of the path is a regular file
CreateDirAll(path, fs, ds) ==
  IF \E q \in Prefixes(path.comps) : q \in DOMAIN fs THEN Err
  ELSE Ok(ds \cup Prefixes(path.comps))

\* fs::write: create or truncate, then write
WriteFile(path, contents, fs, ds) ==
  LET r == Resolve(path, ds)
  IN  IF ~r.ok \/ r.v \in ds \/ Parent(r.v) \notin ds THEN Err
      ELSE Ok([p \in DOMAIN fs \cup {r.v} |-> IF p = r.v THEN contents ELSE fs[p]])

\* --dir / KAYRING_DIR if given, else "<home>/.kayring"
rootdir(dir, home) ==
  IF dir.some THEN Ok(dir.v)
  ELSE IF home.some THEN Ok(Join(home.v, Relative(<<DefaultSubdir>>)))
  ELSE Err

----------------------------------------------------------------------------
(* The sub-commands, as functions of their inputs and of the file system.  *)
(* Each yields the file system it leaves and the run's result.             *)

\* on-disk layout of format version 1: version byte, salt, nonce, ciphertext+tag
FileVersion == 1
SaltLen == 16
NonceLen == 12

Result(op, outcome) ==
  [op |-> op, outcome |-> outcome, out |-> <<>>, names |-> <<>>, warn |-> FALSE]

Run(fs, ds, res) == [files |-> fs, dirs |-> ds, last |-> res]

\* password of `set`: the argument, else "" in silent mode, else prompted twice
SetPassword(in) ==
  IF in.password.some THEN Ok(in.password.v)
  ELSE IF in.silent THEN Ok(<<>>)
  ELSE IF in.typedPw # in.typedPw2 THEN Err
  ELSE Ok(in.typedPw)

\* value of `set`: the argument as given, else prompted and checked for "0x"
SetValue(in) ==
  IF in.value.some THEN [ok |-> TRUE, v |-> in.value.v, err |-> ""]
  ELSE IF in.silent THEN [ok |-> FALSE, v |-> <<>>, err |-> "MissingValue"]
  ELSE IF ~StartsWith(in.typedValue, HexPrefix)
       THEN [ok |-> FALSE, v |-> <<>>, err |-> "InvalidSecretEncoding"]
  ELSE [ok |-> TRUE, v |-> in.typedValue, err |-> ""]

WriteEntry(in, root, filepath, privkey, contents, fs, ds) ==
  LET mk == CreateDirAll(root, fs, ds)
  IN  IF ~mk.ok THEN Run(fs, ds, Result("set", "IOFailure"))
      ELSE LET w == WriteFile(filepath, contents, fs, mk.v)
           IN  IF ~w.ok THEN Run(fs, mk.v, Result("set", "IOFailure"))
               ELSE Run(w.v, mk.v,
                        [Result("set", "Ok") EXCEPT
                           !.out = IF in.echo THEN privkey ELSE <<>>])

EncryptEntry(in, root, filepath, password, privkey, fs, ds) ==
  IF 2 > Len(privkey) \/ ~IsCharBoundary(privkey, 2)
  THEN Run(fs, ds, Result("set", "Panic"))
  ELSE LET value == HexDecode(Slice(privkey, 2, Len(privkey)))
       IN  IF ~value.ok THEN Run(fs, ds, Result("set", "InvalidSecretEncoding"))
           ELSE LET key == derive_key_v1(password, in.salt, in.rounds)
                    encrypted == AesGcmEncrypt(key, in.nonce, value.v)
                    contents == <<FileVersion>> \o in.salt \o in.nonce \o encrypted
                IN  WriteEntry(in, root, filepath, privkey, contents, fs, ds)

\* faulty variant of sub_set: the existence test of line 132 is missing
sub_set_overwriting(in, fs, ds) ==
  LET root == rootdir(in.dir, in.home)
  IN  IF ~root.ok THEN Run(fs, ds, Result("set", "DirectoryResolutionFailure"))
      ELSE LET filepath == Join(root.v, in.name)
               password == SetPassword(in)
               privkey == SetValue(in)
           IN  IF ~password.ok
               THEN Run(fs, ds, Result("set", "PasswordMismatch"))
               ELSE IF ~privkey.ok
               THEN Run(fs, ds, Result("set", privkey.err))
               ELSE EncryptEntry(in, root.v, filepath, password.v,
                                 privkey.v, fs, ds)

sub_set(in, fs, ds) ==
  LET root == rootdir(in.dir, in.home)
  IN  IF ~root.ok THEN Run(fs, ds, Result("set", "DirectoryResolutionFailure"))
      ELSE LET filepath == Join(root.v, in.name)
           IN  IF Exists(filepath, fs, ds) /\ ~in.force
               THEN Run(fs, ds, Result("set", "AlreadyExists"))
               ELSE LET password == SetPassword(in)
                        privkey == SetValue(in)
                    IN  IF ~password.ok
                        THEN Run(fs, ds, Result("set", "PasswordMismatch"))
                        ELSE IF ~privkey.ok
                        THEN Run(fs, ds, Result("set", privkey.err))
                        ELSE EncryptEntry(in, root.v, filepath, password.v,
                                          privkey.v, fs, ds)

\* password of `get`: the argument, else "" in silent mode, else prompted once
GetPassword(in) ==
  IF in.password.some THEN in.password.v
  ELSE IF in.silent THEN <<>>
  ELSE in.typedPw

\* faulty variant of DecodeEntry: the nonce is cut one byte early, [16..28]
DecodeEntryShifted(contents, password, rounds) ==
  IF Len(contents) = 0 THEN Result("get", "Panic")
  ELSE IF contents[1] # FileVersion THEN Result("get", "UnsupportedFormatVersion")
  ELSE IF Len(contents) < 1 + SaltLen + NonceLen THEN Result("get", "Panic")
  ELSE LET key == derive_key_v1(password, Slice(contents, 1, 1 + SaltLen), rounds)
           nonce == Slice(contents, SaltLen, SaltLen + NonceLen)
           encrypted == Slice(contents, 1 + SaltLen + NonceLen, Len(contents))
           cleartext == AesGcmDecrypt(key, nonce, encrypted)
       IN  IF ~cleartext.ok THEN Result("get", "AuthenticationFailure")
           ELSE [Result("get", "Ok") EXCEPT !.out = HexPrefix \o HexEncode(cleartext.v)]

\* lines 221-232: contents[0], the slices [1..17], [17..29], [29..], decrypt
DecodeEntry(contents, password, rounds) ==
  IF Len(contents) = 0 THEN Result("get", "Panic")
  ELSE IF contents[1] # FileVersion THEN Result("get", "UnsupportedFormatVersion")
  ELSE IF Len(contents) < 1 + SaltLen + NonceLen THEN Result("get", "Panic")
  ELSE LET key == derive_key_v1(password, Slice(contents, 1, 1 + SaltLen), rounds)
           nonce == Slice(contents, 1 + SaltLen, 1 + SaltLen + NonceLen)
           encrypted == Slice(contents, 1 + SaltLen + NonceLen, Len(contents))
           cleartext == AesGcmDecrypt(key, nonce, encrypted)
       IN  IF ~cleartext.ok THEN Result("get", "AuthenticationFailure")
           ELSE [Result("get", "Ok") EXCEPT !.out = HexPrefix \o HexEncode(cleartext.v)]

sub_get(in, fs, ds) ==
  LET root == rootdir(in.dir, in.home)
  IN  IF ~root.ok THEN Run(fs, ds, Result("get", "DirectoryResolutionFailure"))
      ELSE LET filepath == Join(root.v, in.name)
               at == Resolve(filepath, ds)
           IN  IF ~Exists(filepath, fs, ds)
               THEN Run(fs, ds, Result("get", "NotFound"))
               ELSE IF at.v \notin DOMAIN fs
               THEN Run(fs, ds, Result("get", "IOFailure"))
               ELSE Run(fs, ds, DecodeEntry(fs[at.v], GetPassword(in), in.rounds))

\* Vec<String>::sort
RECURSIVE Insert(_, _)
Insert(x, sorted) ==
  IF sorted = <<>> THEN <<x>>
  ELSE IF StrLess(x, Head(sorted)) THEN <<x>> \o sorted
  ELSE <<Head(sorted)>> \o Insert(x, Tail(sorted))

\* faulty variant of Sort: results.sort() of line 258 is missing
Unsorted(s) == s

RECURSIVE Sort(_)
Sort(s) == IF s = <<>> THEN <<>> ELSE Insert(Head(s), Sort(Tail(s)))

\* results.join(", ")
RECURSIVE JoinNames(_)
JoinNames(s) ==
  IF s = <<>> THEN <<>>
  ELSE IF Len(s) = 1 THEN s[1]
  ELSE s[1] \o <<44, 32>> \o JoinNames(Tail(s))

\* the names of the Ok entries, in the order read_dir yielded them
RECURSIVE OkNames(_)
OkNames(entries) ==
  IF entries = <<>> THEN <<>>
  ELSE (IF Head(entries).ok THEN <<Head(entries).v>> ELSE <<>>) \o OkNames(Tail(entries))

\* what a directory holds: the last components of its files and subdirectories
Children(dir, fs, ds) ==
  {p[Len(p)] : p \in {q \in DOMAIN fs \cup ds : q # <<>> /\ Parent(q) = dir}}

\* in.entries: the sequence read_dir yields, each item a name or an error
sub_list(in, fs, ds) ==
  LET root == rootdir(in.dir, in.home)
  IN  IF ~root.ok THEN Run(fs, ds, Result("list", "DirectoryResolutionFailure"))
      ELSE LET at == Resolve(root.v, ds)
           IN  IF ~at.ok \/ at.v \notin ds
               THEN Run(fs, ds, Result("list", "IOFailure"))
               ELSE LET results == Sort(OkNames(in.entries))
                    IN  Run(fs, ds,
                            [Result("list", "Ok") EXCEPT
                               !.names = results,
                               !.out = JoinNames(results),
                               !.warn = \E i \in 1..Len(in.entries) : ~in.entries[i].ok])

\* fs::copy.  Copying a file onto itself depends on the platform
\* (in.sameFile): where the target is opened with O_TRUNC before the source
\* is read the file ends up empty and the call succeeds ("truncate"), where
\* the second open is refused the call fails ("error").
CopyFile(in, frompath, topath, fs, ds) ==
  LET from == Resolve(frompath, ds)
      to == Resolve(topath, ds)
  IN  IF from.v \notin DOMAIN fs THEN Err
      ELSE IF ~to.ok \/ to.v \in ds \/ Parent(to.v) \notin ds THEN Err
      ELSE IF to.v = from.v
           THEN (IF in.sameFile = "truncate"
                 THEN Ok([p \in DOMAIN fs |-> IF p = to.v THEN <<>> ELSE fs[p]])
                 ELSE Err)
      ELSE Ok([p \in DOMAIN fs \cup {to.v} |-> IF p = to.v THEN fs[from.v] ELSE fs[p]])

\* faulty variant of sub_clone: the source test of line 274 is missing
sub_clone_unchecked(in, fs, ds) ==
  LET root == rootdir(in.dir, in.home)
  IN  IF ~root.ok THEN Run(fs, ds, Result("clone", "DirectoryResolutionFailure"))
      ELSE LET frompath == Join(root.v, in.from)
               topath == Join(root.v, in.to)
           IN  IF Exists(topath, fs, ds) /\ ~in.force
               THEN Run(fs, ds, Result("clone", "AlreadyExists"))
               ELSE LET copied == CopyFile(in, frompath, topath, fs, ds)
                    IN  IF ~copied.ok THEN Run(fs, ds, Result("clone", "IOFailure"))
                        ELSE Run(copied.v, ds, Result("clone", "Ok"))

sub_clone(in, fs, ds) ==
  LET root == rootdir(in.dir, in.home)
  IN  IF ~root.ok THEN Run(fs, ds, Result("clone", "DirectoryResolutionFailure"))
      ELSE LET frompath == Join(root.v, in.from)
               topath == Join(root.v, in.to)
           IN  IF ~Exists(frompath, fs, ds)
               THEN Run(fs, ds, Result("clone", "NotFound"))
               ELSE IF Exists(topath, fs, ds) /\ ~in.force
               THEN Run(fs, ds, Result("clone", "AlreadyExists"))
               ELSE LET copied == CopyFile(in, frompath, topath, fs, ds)
                    IN  IF ~copied.ok THEN Run(fs, ds, Result("clone", "IOFailure"))
                        ELSE Run(copied.v, ds, Result("clone", "Ok"))

----------------------------------------------------------------------------
(* Inputs.                                                                 *)

\* round counts tried: 0..MaxRounds (the option is a u32)
MaxRounds == 2
Rounds == 0..MaxRounds

\* outcomes of the random source tried: draw k fills salt and nonce
NumDraws == 2
Draws == 1..NumDraws
Salt(k) == [i \in 1..SaltLen |-> (16 * k + i) % 256]
Nonce(k) == [i \in 1..NonceLen |-> (32 * k + 3 * i) % 256]

\* "/h", the home directory; "/h/.kayring" given as --dir
HomeDir == Absolute(<<<<104>>>>)
DirOption == Absolute(<<<<104>>, DefaultSubdir>>)

HomeEnv == [dir |-> None, home |-> Some(HomeDir)]
DirEnv == [dir |-> Some(DirOption), home |-> None]
NoEnv == [dir |-> None, home |-> None]

\* entry names: "a", "B"; "../x" and "/h/x", which both name the file /h/x
NameA == Relative(<<<<97>>>>)
NameB == Relative(<<<<66>>>>)
NameUp == Relative(<<DotDot, <<120>>>>)
NameAbs == Absolute(<<<<104>>, <<120>>>>)
EntryNames == {NameA, NameB}
PathNames == {NameA, NameUp, NameAbs}
FileNames == {NameA}

\* passwords (code points): U+00E9, e + U+0301 (its NFC is U+00E9), "q"
PwComposed == <<233>>
PwDecomposed == <<101, 769>>
PwOther == <<113>>

\* values (UTF-8): "0x", "0xab", "0xAB", "zzab", "0", "0xa", "0xzz", "a" U+00E9
ValEmpty == <<48, 120>>
ValAb == <<48, 120, 97, 98>>
ValUpper == <<48, 120, 65, 66>>
ValNoPrefix == <<122, 122, 97, 98>>
ValShort == <<48>>
ValOdd == <<48, 120, 97>>
ValNotHex == <<48, 120, 122, 122>>
ValSplit == <<97, 195, 169>>

\* how password and value reach `set`: arguments/environment, or prompts
Quiet(password, value) ==
  [silent |-> TRUE, password |-> password, typedPw |-> <<>>, typedPw2 |-> <<>>,
   value |-> value, typedValue |-> <<>>]
Prompted(password, typedPw, typedPw2, value, typedValue) ==
  [silent |-> FALSE, password |-> password, typedPw |-> typedPw,
   typedPw2 |-> typedPw2, value |-> value, typedValue |-> typedValue]

SetIn(env, name, force, echo, how, rounds, k) ==
  [dir |-> env.dir, home |-> env.home, name |-> name, force |-> force,
   echo |-> echo, silent |-> how.silent, password |-> how.password,
   typedPw |-> how.typedPw, typedPw2 |-> how.typedPw2, value |-> how.value,
   typedValue |-> how.typedValue, rounds |-> rounds,
   salt |-> Salt(k), nonce |-> Nonce(k)]

\* well-formed values under two passwords
SetWays ==
  {Quiet(None, Some(v)) : v \in {ValEmpty, ValAb}}
    \cup {Prompted(Some(PwComposed), <<>>, <<>>, Some(v), <<>>) : v \in {ValEmpty, ValAb}}

\* the other ways password and value can arrive, well-formed or not
SetOddWays ==
  {Prompted(Some(PwDecomposed), <<>>, <<>>, Some(ValAb), <<>>),
   Prompted(None, PwComposed, PwComposed, Some(ValAb), <<>>),
   Prompted(None, PwComposed, PwDecomposed, Some(ValAb), <<>>),
   Prompted(Some(PwComposed), <<>>, <<>>, None, ValAb),
   Prompted(Some(PwComposed), <<>>, <<>>, None, ValNoPrefix),
   Quiet(Some(PwComposed), None)}
    \cup {Quiet(Some(PwComposed), Some(v)) :
            v \in {ValUpper, ValNoPrefix, ValShort, ValOdd, ValNotHex, ValSplit}}

SetInputs(names) ==
  {SetIn(HomeEnv, n, f, FALSE, how, r, 1) :
     n \in names, f \in BOOLEAN, how \in SetWays, r \in Rounds}
    \cup {SetIn(HomeEnv, n, f, FALSE, Quiet(None, Some(ValAb)), 1, k) :
            n \in names, f \in BOOLEAN, k \in Draws}
    \cup {SetIn(HomeEnv, n, TRUE, e, how, 1, 1) :
            n \in names, e \in BOOLEAN, how \in SetOddWays}
    \cup {SetIn(env, n, TRUE, FALSE, Quiet(None, Some(ValAb)), 1, 1) :
            env \in {DirEnv, NoEnv}, n \in names}

GetIn(env, name, silent, password, typedPw, rounds) ==
  [dir |-> env.dir, home |-> env.home, name |-> name, silent |-> silent,
   password |-> password, typedPw |-> typedPw, rounds |-> rounds]

GetInputs(names) ==
  {GetIn(HomeEnv, n, FALSE, Some(pw), <<>>, r) :
     n \in names, pw \in {PwComposed, PwDecomposed, PwOther}, r \in Rounds}
    \cup {GetIn(HomeEnv, n, TRUE, None, <<>>, r) : n \in names, r \in Rounds}
    \cup {GetIn(HomeEnv, n, FALSE, None, PwComposed, r) : n \in names, r \in Rounds}
    \cup {GetIn(env, n, TRUE, None, <<>>, 1) : env \in {DirEnv, NoEnv}, n \in names}

CloneIn(env, from, to, force, sameFile) ==
  [dir |-> env.dir, home |-> env.home, from |-> from, to |-> to,
   force |-> force, sameFile |-> sameFile]

CloneInputs(names) ==
  {CloneIn(HomeEnv, a, b, f, sf) :
     a \in names, b \in names, f \in BOOLEAN, sf \in {"truncate", "error"}}
    \cup {CloneIn(env, NameA, NameA, TRUE, "error") : env \in {DirEnv, NoEnv}}

\* every order in which read_dir can yield a set of names
RECURSIVE Orders(_)
Orders(S) ==
  IF S = {} THEN {<<>>}
  ELSE UNION {{<<x>> \o rest : rest \in Orders(S \ {x})} : x \in S}

\* an enumeration in which the entries named in `bad` come back as errors
Yield(order, bad) ==
  [i \in 1..Len(order) |-> IF order[i] \in bad THEN Err ELSE Ok(order[i])]

\* what read_dir can yield for the root directory of `env`
Listed(env, fs, ds) ==
  LET root == rootdir(env.dir, env.home)
  IN  IF root.ok /\ Resolve(root.v, ds).ok
      THEN Children(Resolve(root.v, ds).v, fs, ds) ELSE {}

ListInputs(fs, ds) ==
  {[dir |-> HomeEnv.dir, home |-> HomeEnv.home, entries |-> Yield(order, bad)] :
     order \in Orders(Listed(HomeEnv, fs, ds)), bad \in SUBSET Listed(HomeEnv, fs, ds)}
    \cup UNION {{[dir |-> env.dir, home |-> env.home, entries |-> Yield(order, {})] :
                   order \in Orders(Listed(env, fs, ds))} : env \in {DirEnv, NoEnv}}

----------------------------------------------------------------------------
(* The runs.                                                               *)

Apply(run) ==
  /\ files' = run.files
  /\ dirs' = run.dirs
  /\ last' = run.last

SubSet(inputs) == \E in \in inputs : Apply(sub_set(in, files, dirs))
SubGet(inputs) == \E in \in inputs : Apply(sub_get(in, files, dirs))
SubList == \E in \in ListInputs(files, dirs) : Apply(sub_list(in, files, dirs))
SubClone(inputs) == \E in \in inputs : Apply(sub_clone(in, files, dirs))

StoreSets == SetInputs(EntryNames)
StoreGets == GetInputs(EntryNames)
StoreClones == CloneInputs(EntryNames)
PathSets == SetInputs(PathNames)
PathGets == GetInputs(PathNames)
PathClones == CloneInputs(PathNames)

\* a fresh machine: the home directory exists, the root directory does not
Init ==
  /\ files = <<>>
  /\ dirs = Prefixes(HomeDir.comps)
  /\ last = Result("none", "none")

Next ==
  \/ SubSet(StoreSets)
  \/ SubGet(StoreGets)
  \/ SubList
  \/ SubClone(StoreClones)

Spec == Init /\ [][Next]_vars

\* the same program given names that are paths
NextPaths ==
  \/ SubSet(PathSets)
  \/ SubGet(PathGets)
  \/ SubList
  \/ SubClone(PathClones)

SpecPaths == Init /\ [][NextPaths]_vars

(* The environment may damage an entry file between runs (a crash in the   *)
(* middle of a write, a failing disk, an editor): the file is cut short,   *)
(* its version byte is overwritten, or one byte is complemented.           *)
CutLengths == {0, 1, 17, 28, 29, 44}
FlipOffsets == {16, 28}

Damaged(c) ==
  {Slice(c, 0, n) : n \in {m \in CutLengths : m < Len(c)}}
    \cup {[c EXCEPT ![1] = 2] : k \in {1} \cap DOMAIN c}
    \cup {[c EXCEPT ![k + 1] = 255 - c[k + 1]] : k \in {m \in FlipOffsets : m < Len(c)}}
    \cup {[c EXCEPT ![Len(c)] = 255 - c[Len(c)]] : k \in {1} \cap DOMAIN c}

Corrupt ==
  \E p \in DOMAIN files : \E c \in Damaged(files[p]) :
    /\ files' = [files EXCEPT ![p] = c]
    /\ UNCHANGED <<dirs, last>>

FileSets == SetInputs(FileNames)
FileGets == GetInputs(FileNames)
FileClones == CloneInputs(FileNames)

\* the program on one entry whose file the environment damages
NextFile ==
  \/ SubSet(FileSets)
  \/ SubGet(FileGets)
  \/ SubList
  \/ SubClone(FileClones)
  \/ Corrupt

SpecFile == Init /\ [][NextFile]_vars

----------------------------------------------------------------------------
(* Vocabulary of the properties.                                           *)

\* "/h/.kayring", the root directory of HomeEnv and of DirEnv
RootComps == <<<<104>>, DefaultSubdir>>

\* the file of the entry called by the plain name n, and whether it is there
EntryFile(n) == RootComps \o n.comps
HasEntry(n) == EntryFile(n) \in DOMAIN files

RootResolved(in) == rootdir(in.dir, in.home).ok

\* the value handed to `set`, by argument or environment, else at the prompt
Supplied(in) == IF in.value.some THEN in.value.v ELSE in.typedValue
ValueSupplied(in) == in.value.some \/ ~in.silent

\* the bytes a "0x..." string stands for
Bytes(v) == HexDecode(Slice(v, 2, Len(v)))
WellFormedHex(v) == StartsWith(v, HexPrefix) /\ Bytes(v).ok

\* the runs of `get` that read entry n with password pw and r rounds
GetsOf(gets, n, pw, r) ==
  {g \in gets : g.name = n /\ RootResolved(g) /\ GetPassword(g) = pw /\ g.rounds = r}

\* `get` printed the secret `bytes`
Printed(res, bytes) ==
  /\ res.op = "get"
  /\ res.outcome = "Ok"
  /\ StartsWith(res.out, HexPrefix)
  /\ Bytes(res.out) = Ok(bytes)

----------------------------------------------------------------------------
(* C1  Round trip: whenever set(name, s, p, r) with r >= 1 succeeds, on a  *)
(* fresh name or over an existing entry, every following get(name, p, r),  *)
(* however the password reaches it, prints exactly s.                      *)
RoundTrip ==
  \A in \in StoreSets :
    LET run == sub_set(in, files, dirs)
    IN  (run.last.outcome = "Ok" /\ in.rounds >= 1) =>
          /\ EntryFile(in.name) \in DOMAIN run.files
          /\ GetsOf(StoreGets, in.name, SetPassword(in).v, in.rounds) # {}
          /\ \A g \in GetsOf(StoreGets, in.name, SetPassword(in).v, in.rounds) :
               Printed(sub_get(g, run.files, run.dirs).last, Bytes(Supplied(in)).v)

\* a get printed "0xab" while both entries were stored
RoundTripSeen ==
  /\ last.op = "get"
  /\ last.outcome = "Ok"
  /\ last.out = ValAb
  /\ HasEntry(NameA) /\ HasEntry(NameB)

----------------------------------------------------------------------------
(* C3, as the code has it: a set whose target exists, and a clone whose    *)
(* source exists and whose target exists, without force, fail with         *)
(* AlreadyExists and leave every file and directory as it was.             *)
OverwriteProtected ==
  /\ \A in \in StoreSets :
       (RootResolved(in) /\ HasEntry(in.name) /\ ~in.force) =>
         sub_set(in, files, dirs) = Run(files, dirs, Result("set", "AlreadyExists"))
  /\ \A c \in StoreClones :
       (RootResolved(c) /\ HasEntry(c.from) /\ HasEntry(c.to) /\ ~c.force) =>
         sub_clone(c, files, dirs) = Run(files, dirs, Result("clone", "AlreadyExists"))

\* a clone onto an existing entry was refused
OverwriteRefused ==
  /\ last = Result("clone", "AlreadyExists")
  /\ HasEntry(NameA)

(* C3, as stated: any set or clone whose target exists, without force,     *)
(* fails with AlreadyExists and changes nothing, whatever the source.      *)
OverwriteProtectedAnySource ==
  /\ \A in \in StoreSets :
       (RootResolved(in) /\ HasEntry(in.name) /\ ~in.force) =>
         sub_set(in, files, dirs) = Run(files, dirs, Result("set", "AlreadyExists"))
  /\ \A c \in StoreClones :
       (RootResolved(c) /\ HasEntry(c.to) /\ ~c.force) =>
         sub_clone(c, files, dirs) = Run(files, dirs, Result("clone", "AlreadyExists"))

----------------------------------------------------------------------------
(* C5  NotFound: a get of a name with no entry, and a clone from a name    *)
(* with no entry, fail with NotFound whatever the password, the rounds,    *)
(* the target or the force flag, and change no file and no directory.      *)
NotFoundReported ==
  /\ \A g \in StoreGets :
       (RootResolved(g) /\ ~HasEntry(g.name)) =>
         sub_get(g, files, dirs) = Run(files, dirs, Result("get", "NotFound"))
  /\ \A c \in StoreClones :
       (RootResolved(c) /\ ~HasEntry(c.from)) =>
         sub_clone(c, files, dirs) = Run(files, dirs, Result("clone", "NotFound"))

\* a clone from a missing entry failed while another entry was stored
NotFoundSeen ==
  /\ last = Result("clone", "NotFound")
  /\ DOMAIN files # {}
  /\ \E n \in EntryNames : ~HasEntry(n)

----------------------------------------------------------------------------
(* C9, as the code has it: when the root directory exists, list succeeds  *)
(* with exactly the names that were read, each once, in ascending byte     *)
(* order, whatever order the directory yields them in; it warns exactly    *)
(* when some entry could not be read, and changes nothing.                 *)
Readable(in) == {in.entries[i].v : i \in {j \in 1..Len(in.entries) : in.entries[j].ok}}
StoredNames == {n.comps[1] : n \in {m \in EntryNames : HasEntry(m)}}

ListResult(in) ==
  LET run == sub_list(in, files, dirs)
      names == run.last.names
  IN  /\ run.files = files /\ run.dirs = dirs
      /\ run.last.op = "list" /\ run.last.outcome = "Ok"
      /\ {names[i] : i \in 1..Len(names)} = Readable(in)
      /\ Len(names) = Cardinality(Readable(in))
      /\ \A i \in 1..Len(names) : \A j \in 1..Len(names) :
           i < j => StrLess(names[i], names[j])
      /\ Readable(in) \subseteq StoredNames
      /\ run.last.warn <=> (Cardinality(Readable(in)) < Len(in.entries))
      /\ ~run.last.warn => Readable(in) = StoredNames

ListSorted ==
  \A in \in ListInputs(files, dirs) :
    (RootResolved(in) /\ RootComps \in dirs) => ListResult(in)

\* list printed "B, a"
ListSortedSeen ==
  /\ last.op = "list"
  /\ last.outcome = "Ok"
  /\ last.names = <<<<66>>, <<97>>>>
  /\ last.out = <<66, 44, 32, 97>>

(* C9, as stated: in every store state, the one before the first set      *)
(* included, list succeeds with the names read, sorted by byte value.      *)
ListSortedAlways ==
  \A in \in ListInputs(files, dirs) : RootResolved(in) => ListResult(in)

----------------------------------------------------------------------------
(* C2  Authentication sensitivity: for an entry written by a successful    *)
(* set(name, s, p, r), a get fails with AuthenticationFailure when one     *)
(* byte of the salt, the nonce, the ciphertext or the tag is changed, or   *)
(* when it is given a different password or a different round count; no    *)
(* get prints a plaintext other than s.  Passwords that differ only in     *)
(* their normalization form count as the same password.                    *)
SingleByteChanges(c) ==
  {[c EXCEPT ![i] = (c[i] + d) % 256] : i \in 2..Len(c), d \in {1, 128, 255}}

GetsOfName(gets, n) == {g \in gets : g.name = n /\ RootResolved(g)}

TamperDetected ==
  \A in \in FileSets :
    LET run == sub_set(in, files, dirs)
        path == EntryFile(in.name)
    IN  run.last.outcome = "Ok" =>
          \A c \in SingleByteChanges(run.files[path]) :
            \A g \in GetsOfName(FileGets, in.name) :
              sub_get(g, [run.files EXCEPT ![path] = c], run.dirs).last
                = Result("get", "AuthenticationFailure")

WrongPasswordRejected ==
  \A in \in FileSets :
    LET run == sub_set(in, files, dirs)
    IN  run.last.outcome = "Ok" =>
          \A g \in GetsOfName(FileGets, in.name) :
            Nfc(GetPassword(g)) # Nfc(SetPassword(in).v) =>
              sub_get(g, run.files, run.dirs).last = Result("get", "AuthenticationFailure")

WrongRoundsRejected ==
  \A in \in FileSets :
    LET run == sub_set(in, files, dirs)
    IN  run.last.outcome = "Ok" =>
          \A g \in GetsOfName(FileGets, in.name) :
            g.rounds # in.rounds =>
              sub_get(g, run.files, run.dirs).last = Result("get", "AuthenticationFailure")

NoWrongPlaintext ==
  \A in \in FileSets :
    LET run == sub_set(in, files, dirs)
    IN  run.last.outcome = "Ok" =>
          \A g \in GetsOfName(FileGets, in.name) :
            LET got == sub_get(g, run.files, run.dirs).last
            IN  got.outcome = "Ok" => Printed(got, Bytes(Supplied(in)).v)

AuthSensitive ==
  /\ WrongRoundsRejected
  /\ WrongPasswordRejected
  /\ NoWrongPlaintext
  /\ TamperDetected

----------------------------------------------------------------------------
(* C4  Clone fidelity: whenever clone(from, to) of an existing entry       *)
(* succeeds, `to` included equal to `from`, the file of `to` afterwards    *)
(* holds the bytes the file of `from` held before, the file of `from` is   *)
(* unchanged, and every get reads from `to` what it reads from `from`.     *)
CloneFaithful ==
  \A c \in StoreClones :
    LET run == sub_clone(c, files, dirs)
    IN  (RootResolved(c) /\ HasEntry(c.from) /\ run.last.outcome = "Ok") =>
          /\ EntryFile(c.to) \in DOMAIN run.files
          /\ run.files[EntryFile(c.to)] = files[EntryFile(c.from)]
          /\ run.files[EntryFile(c.from)] = files[EntryFile(c.from)]
          /\ \A g \in GetsOfName(StoreGets, c.from) :
               sub_get([g EXCEPT !.name = c.to], run.files, run.dirs).last
                 = sub_get(g, files, dirs).last

----------------------------------------------------------------------------
(* C6  Format rejection: whatever an entry file holds, get returns an      *)
(* outcome and does not panic; a first byte other than 1 gives             *)
(* UnsupportedFormatVersion, and fewer than 29 bytes, none included, give  *)
(* MalformedPayload.                                                       *)
FormatRejected ==
  \A g \in GetsOfName(FileGets, NameA) :
    HasEntry(g.name) =>
      LET c == files[EntryFile(g.name)]
          got == sub_get(g, files, dirs).last
      IN  /\ got.outcome # "Panic"
          /\ (c # <<>> /\ c[1] # FileVersion) =>
               got = Result("get", "UnsupportedFormatVersion")
          /\ (Len(c) < 1 + SaltLen + NonceLen /\ (c = <<>> \/ c[1] = FileVersion)) =>
               got = Result("get", "MalformedPayload")

----------------------------------------------------------------------------
(* C7  Name confinement: every file the program has created lies directly  *)
(* inside the root directory, whatever names set, get and clone were       *)
(* given.                                                                  *)
Confined == \A p \in DOMAIN files : Parent(p) = RootComps

----------------------------------------------------------------------------
(* C8  Secret encoding: a set that reaches its value succeeds only on a    *)
(* well-formed hex string with the 0x prefix and then stores the bytes     *)
(* after the prefix; on every other value, however supplied, it fails      *)
(* with InvalidSecretEncoding, does not panic and writes nothing.          *)
ReachesValue(in) ==
  /\ RootResolved(in)
  /\ in.force \/ ~HasEntry(in.name)
  /\ SetPassword(in).ok
  /\ ValueSupplied(in)

EncodingChecked ==
  \A in \in StoreSets :
    ReachesValue(in) =>
      LET run == sub_set(in, files, dirs)
      IN  IF WellFormedHex(Supplied(in))
          THEN /\ run.last.outcome = "Ok"
               /\ Printed(DecodeEntry(run.files[EntryFile(in.name)],
                                      SetPassword(in).v, in.rounds),
                          Bytes(Supplied(in)).v)
          ELSE run = Run(files, dirs, Result("set", "InvalidSecretEncoding"))

----------------------------------------------------------------------------
(* C10  Round validation: set and get with rounds = 0 are rejected before  *)
(* a key is derived, so such a set writes nothing and such a get neither   *)
(* prints a secret nor reports a failed decryption; and no entry a set     *)
(* wrote is decrypted by a get given another round count.                  *)
ZeroRoundsRejected ==
  /\ \A in \in StoreSets :
       (RootResolved(in) /\ in.rounds = 0) =>
         LET run == sub_set(in, files, dirs)
         IN  run.files = files /\ run.last.outcome # "Ok"
  /\ \A g \in GetsOfName(StoreGets, NameA) \cup GetsOfName(StoreGets, NameB) :
       g.rounds = 0 =>
         sub_get(g, files, dirs).last.outcome \notin {"Ok", "AuthenticationFailure"}

RoundsBound ==
  \A in \in StoreSets :
    LET run == sub_set(in, files, dirs)
    IN  run.last.outcome = "Ok" =>
          \A g \in GetsOfName(StoreGets, in.name) :
            g.rounds # in.rounds => sub_get(g, run.files, run.dirs).last.outcome # "Ok"

RoundsValidated == ZeroRoundsRejected /\ RoundsBound

====
